---- MODULE Spec2Model ----
(***************************************************************************)
(* Model of python-worker/processor.py (SmartImageProcessor) and of the    *)
(* way python-worker/main.py calls it.                                     *)
(*                                                                         *)
(* Points are pairs <<x, y>> of integers; a corner array is a sequence of  *)
(* points (numpy index i is TLA+ index i + 1).  A frame shape is           *)
(* <<height, width>> as in img.shape[:2].                                  *)
(***************************************************************************)
EXTENDS Integers, Sequences, FiniteSets, TLC

VARIABLES
    \* ---- process(), one entry per concurrent call (Spec)
    pc, bytes, buf, env, result, debug, overlapped,
    \* ---- _find_document_corners_multi_strategy (SpecScan)
    sPc, sShape, sI, sJ, sLog, sResult,
    \* ---- _transform_perspective / _order_corners (SpecOrder)
    oPts, oFrame, oPerm, oFirst, oSecond, oPhase,
    \* ---- _is_valid_quadrilateral / _validate_corners (SpecQuad)
    qPts, qShape, qValid, qReason, qPhase,
    \* ---- _find_best_contour (SpecContour)
    kFound, kContours, kShape, kRatio, kIdx, kEps, kLog, kResult, kPc,
    \* ---- main.py generate_pdf (SpecGenerate)
    gPc, gDir, gBytes, gFiles, gI, gFlags, gPaths, gResponse

procVars  == <<pc, bytes, buf, env, result, debug, overlapped>>
scanVars  == <<sPc, sShape, sI, sJ, sLog, sResult>>
orderVars == <<oPts, oFrame, oPerm, oFirst, oSecond, oPhase>>
quadVars  == <<qPts, qShape, qValid, qReason, qPhase>>
contourVars == <<kFound, kContours, kShape, kRatio, kIdx, kEps, kLog, kResult, kPc>>
generateVars == <<gPc, gDir, gBytes, gFiles, gI, gFlags, gPaths, gResponse>>
vars      == <<procVars, scanVars, orderVars, quadVars, contourVars, generateVars>>

\* Python's None where a corner array is expected: no corners.
None == <<>>

\* ------------------------------------------------------------------ bounds
\* Grid coordinates run over 0..GridMax.  The validator harness uses the grid
\* as it is (the angle test does not depend on scale); the rectifier harness
\* uses it in units of Step pixels, so that measured edge lengths fall on
\* both sides of the 100-pixel minimum.
GridMax == 2
Step == 90

UnitPoints == (0..GridMax) \X (0..GridMax)
Coords == {k * Step : k \in 0..GridMax}
Points == Coords \X Coords

\* ------------------------------------------------------------- arithmetic
Abs(n) == IF n < 0 THEN -n ELSE n
Max(a, b) == IF a >= b THEN a ELSE b

\* int(np.sqrt(n)) for an integer 0 <= n < 46340^2, by bisection:
\* lo * lo <= n < hi * hi throughout.
RECURSIVE ISqrtBetween(_, _, _)
ISqrtBetween(n, lo, hi) ==
    IF hi - lo <= 1 THEN lo
    ELSE LET mid == (lo + hi) \div 2
         IN  IF mid * mid <= n THEN ISqrtBetween(n, mid, hi)
                               ELSE ISqrtBetween(n, lo, mid)
ISqrt(n) == ISqrtBetween(n, 0, 46340)

Sub(p, q) == <<p[1] - q[1], p[2] - q[2]>>
Dot(u, v) == u[1] * v[1] + u[2] * v[2]
Norm2(v) == Dot(v, v)

\* All orders in which 4 items can be given.
Perms4 == {p \in [1..4 -> 1..4] : \A i, j \in 1..4 : i # j => p[i] # p[j]}
Permute(s, p) == <<s[p[1]], s[p[2]], s[p[3]], s[p[4]]>>

\* ---------------------------------------------- _is_valid_quadrilateral
\* An angle a is <= 20 or >= 160 degrees exactly when cos(a)^2 >= cos(20 deg)^2
\* = 0.883022...; Cos2Num / Cos2Den = 0.883041 is that limit as a fraction whose
\* products stay inside 32-bit integers (it decides every pair of vectors with
\* integer components in -4..4 as the floating-point test does).
Cos2Num == 151
Cos2Den == 171

\* p1, p2, p3 of loop index i (0-based): corners[i], corners[(i+1)%4], corners[(i+2)%4]
EdgeV1(corners, i) == Sub(corners[i + 1], corners[((i + 1) % 4) + 1])
EdgeV2(corners, i) == Sub(corners[((i + 2) % 4) + 1], corners[((i + 1) % 4) + 1])

\* norm1 == 0 or norm2 == 0
ZeroEdge(corners, i) ==
    Norm2(EdgeV1(corners, i)) = 0 \/ Norm2(EdgeV2(corners, i)) = 0

\* a <= 20 or a >= 160 for a = degrees(arccos(clip(dot / (norm1 * norm2)))).
\* With a zero norm the quotient is NaN and both comparisons are false.
AngleInvalid(corners, i) ==
    LET v1 == EdgeV1(corners, i)
        v2 == EdgeV2(corners, i)
        d  == Dot(v1, v2)
    IN  /\ Norm2(v1) # 0
        /\ Norm2(v2) # 0
        /\ d * d * Cos2Den >= Cos2Num * Norm2(v1) * Norm2(v2)

\* (mutation) the zero-length-edge test is left out
IsValidQuadrilateralNoZeroTest(corners) ==
    /\ Len(corners) = 4
    /\ ~ \E i \in 0..3 : AngleInvalid(corners, i)

IsValidQuadrilateral(corners) ==
    /\ Len(corners) = 4
    /\ ~ \E i \in 0..3 : ZeroEdge(corners, i)
    /\ ~ \E i \in 0..3 : AngleInvalid(corners, i)

\* ------------------------------------------------------ _validate_corners
Margin == 50
MinAreaPct == 5
MaxAreaPct == 98

\* Twice the signed shoelace area; cv2.contourArea is half its absolute value.
Shoelace2(corners) ==
    LET term(i) == corners[i][1] * corners[(i % 4) + 1][2]
                   - corners[(i % 4) + 1][1] * corners[i][2]
    IN  term(1) + term(2) + term(3) + term(4)

OutOfBounds(corner, shape) ==
    LET height == shape[1]
        width  == shape[2]
        x == corner[1]
        y == corner[2]
    IN  x < -Margin \/ x > width + Margin \/ y < -Margin \/ y > height + Margin

\* (mutation) the upper area limit is left out
ValidateCornersReasonNoUpper(corners, shape, fault) ==
    IF corners = None THEN "count"
    ELSE IF Len(corners) # 4 THEN "count"
    ELSE IF fault THEN "fault"
    ELSE IF \E i \in 1..4 : OutOfBounds(corners[i], shape) THEN "bounds"
    ELSE IF Abs(Shoelace2(corners)) * 100 < 2 * MinAreaPct * shape[1] * shape[2]
         THEN "small"
    ELSE "ok"

\* The return point of _validate_corners: "ok" is return True, every other
\* value a return False; "fault" is the except branch.
ValidateCornersReason(corners, shape, fault) ==
    IF corners = None THEN "count"
    ELSE IF Len(corners) # 4 THEN "count"
    ELSE IF fault THEN "fault"
    ELSE IF \E i \in 1..4 : OutOfBounds(corners[i], shape) THEN "bounds"
    ELSE LET area2    == Abs(Shoelace2(corners))
             img_area == shape[1] * shape[2]
         IN  IF area2 * 100 < 2 * MinAreaPct * img_area THEN "small"
             ELSE IF area2 * 100 > 2 * MaxAreaPct * img_area THEN "large"
             ELSE "ok"

ValidateCorners(corners, shape, fault) ==
    ValidateCornersReason(corners, shape, fault) = "ok"

\* --------------------------------------------------------- _order_corners
\* np.argmin / np.argmax: the first index (1-based here) of the least / greatest.
ArgMin(f) ==
    CHOOSE i \in 1..4 : /\ \A j \in 1..4 : f[i] <= f[j]
                        /\ \A j \in 1..(i - 1) : f[j] > f[i]
ArgMax(f) ==
    CHOOSE i \in 1..4 : /\ \A j \in 1..4 : f[i] >= f[j]
                        /\ \A j \in 1..(i - 1) : f[j] < f[i]

\* rect = (top-left, top-right, bottom-right, bottom-left)
OrderCorners(pts) ==
    LET s    == [i \in 1..4 |-> pts[i][1] + pts[i][2]]
        diff == [i \in 1..4 |-> pts[i][2] - pts[i][1]]
    IN  <<pts[ArgMin(s)], pts[ArgMin(diff)], pts[ArgMax(s)], pts[ArgMax(diff)]>>

\* ------------------------------------------------- _transform_perspective
MinDim == 100

Dist(p, q) == ISqrt(Norm2(Sub(p, q)))

\* <<int(max(widthA, widthB)), int(max(heightA, heightB))>> before the minimum
RawDims(rect) ==
    LET tl == rect[1]
        tr == rect[2]
        br == rect[3]
        bl == rect[4]
    IN  <<Max(Dist(br, bl), Dist(tr, tl)), Max(Dist(tr, br), Dist(tl, bl))>>

\* (mutation) the minimum output dimensions are not enforced
OutDimsNoFloor(rect) == RawDims(rect)

\* <<maxWidth, maxHeight>> of the ordered corners
OutDims(rect) ==
    <<Max(RawDims(rect)[1], MinDim), Max(RawDims(rect)[2], MinDim)>>

\* A frame: what it was decoded from and by which decoder, its shape
\* <<height, width>>, whether it was warped, and the enhancement applied.
Frame(src, dec, shape) ==
    [src |-> src, dec |-> dec, shape |-> shape, geom |-> "original", enh |-> "none"]

\* (mutation) the try block is missing: a fault leaves no frame behind
TransformPerspectiveNoCatch(img, corners, fault) ==
    IF fault THEN Frame("", "none", <<0, 0>>)
    ELSE LET dims == OutDims(OrderCorners(corners))
         IN  [img EXCEPT !.shape = <<dims[2], dims[1]>>, !.geom = "rectified"]

\* The frame _transform_perspective returns: the warped frame of size
\* (maxWidth, maxHeight), or img itself when anything in the try block raised.
TransformPerspective(img, corners, fault) ==
    IF fault THEN img
    ELSE LET dims == OutDims(OrderCorners(corners))
         IN  [img EXCEPT !.shape = <<dims[2], dims[1]>>, !.geom = "rectified"]

\* ------------------------------------------------------ _find_best_contour
\* A contour is a sequence of integer points at working resolution; position
\* pos (0-based, as in the library) is At(contour, pos).
At(contour, pos) == contour[pos + 1]

RECURSIVE SumSeq(_)
SumSeq(s) == IF s = <<>> THEN 0 ELSE Head(s) + SumSeq(Tail(s))

\* Twice cv2.contourArea(contour): the absolute shoelace sum of the polygon.
ContourArea2(contour) ==
    LET n == Len(contour)
    IN  Abs(SumSeq([i \in 1..n |->
                contour[i][1] * contour[(i % n) + 1][2]
                - contour[(i % n) + 1][1] * contour[i][2]]))

\* cv2.arcLength(contour, True) in tenths of a pixel (each edge measured to a
\* hundredth).
ArcLengthDeci(contour) ==
    LET n == Len(contour)
    IN  SumSeq([i \in 1..n |->
            ISqrt(10000 * Norm2(Sub(contour[i], contour[(i % n) + 1])))]) \div 10

\* The tolerances [0.02, 0.03, 0.04, 0.05, 0.06] in hundredths.
EpsilonFactors == <<2, 3, 4, 5, 6>>

\* (epsilon_factor * peri)^2 in hundredths of a square pixel, for
\* epsilon_factor = k / 100.
Eps2Centi(contour, k) ==
    LET e == k * ArcLengthDeci(contour)      \* epsilon in thousandths
    IN  (e * e) \div 10000

\* The one element of a singleton set: binds a computed value to a name.
The(S) == CHOOSE x \in S : TRUE

\* Of a sequence of pairs <<item, size>>, the first pair of greatest size
\* (the library keeps a maximum only when a size is strictly greater).
FirstGreatest(pairs) ==
    pairs[CHOOSE k \in 1..Len(pairs) :
             /\ \A i \in 1..Len(pairs) : pairs[i][2] <= pairs[k][2]
             /\ \A i \in 1..(k - 1) : pairs[i][2] < pairs[k][2]]

\* cv2.approxPolyDP(contour, epsilon, True) is the library's Douglas-Peucker
\* routine for a closed curve, in three stages.
\* Stage 1, one round: the offset j (1..count-1) from position s of the first
\* point farthest from contour[s]; prev when every point coincides with it.
FarthestOffset(contour, s, prev) ==
    LET n == Len(contour)
    IN  The({IF n < 2 \/ FirstGreatest(d)[2] = 0 THEN prev ELSE FirstGreatest(d)[1] :
             d \in {[j \in 1..(n - 1) |->
                       <<j, Norm2(Sub(At(contour, (s + j) % n), At(contour, s)))>>]}})

\* The positions strictly between a and b, walking forward round the contour.
Between(a, b, n) == [i \in 1..((b - a - 1) % n) |-> (a + i) % n]

\* |(pt - start) x (end - start)|: the distance of contour[pos] from the line
\* through contour[a] and contour[b], times the length of that chord.
ChordCross(contour, a, b, pos) ==
    LET start == At(contour, a)
        d     == Sub(At(contour, b), start)
        r     == Sub(At(contour, pos), start)
    IN  Abs(r[2] * d[1] - r[1] * d[2])

\* Stage 2: the points kept on the slice from position a up to, not
\* including, position b: contour[a] alone when every point between lies
\* within epsilon of the chord, else the slice is split at the first farthest
\* point.
RECURSIVE ApproxSlice(_, _, _, _)
ApproxSlice(contour, a, b, eps2) ==
    LET inner == Between(a, b, Len(contour))
        seg2  == Norm2(Sub(At(contour, b), At(contour, a)))
    IN  IF inner = <<>> THEN <<At(contour, a)>>
        ELSE The({IF far[2] * far[2] * 100 <= eps2 * seg2
                  THEN <<At(contour, a)>>
                  ELSE ApproxSlice(contour, a, far[1], eps2)
                       \o ApproxSlice(contour, far[1], b, eps2) :
                  far \in {FirstGreatest([m \in 1..Len(inner) |->
                              <<inner[m], ChordCross(contour, a, b, inner[m])>>])}})

\* Stage 3, the test of one kept point pt between its neighbours: it lies on
\* an almost straight, oblique line and is dropped.
OnStraightLine(start, pt, end, eps2) ==
    LET dx   == end[1] - start[1]
        dy   == end[2] - start[2]
        dist == Abs((pt[1] - start[1]) * dy - (pt[2] - start[2]) * dx)
        successive_inner_product ==
            (pt[1] - start[1]) * (end[1] - pt[1]) + (pt[2] - start[2]) * (end[2] - pt[2])
    IN  /\ 2 * dist * dist * 100 <= eps2 * (dx * dx + dy * dy)
        /\ dx # 0
        /\ dy # 0
        /\ successive_inner_product >= 0

\* Stage 3: the final clean-up pass over the kept points, done in place
\* (reads at pos run ahead of writes at wpos and wrap round).  The state of
\* the loop is v = [dst, i, pos, wpos, start, pt, new_count].
RECURSIVE CleanUp(_, _)
CleanUp(v, eps2) ==
    LET n    == Len(v.dst)
        end  == At(v.dst, v.pos)
        pos1 == (v.pos + 1) % n
        wpos1 == (v.wpos + 1) % n
    IN  IF ~ (v.i < n /\ v.new_count > 2) THEN SubSeq(v.dst, 1, v.new_count)
        ELSE The({CleanUp(w, eps2) : w \in {
                IF OnStraightLine(v.start, v.pt, end, eps2)
                THEN [dst |-> [v.dst EXCEPT ![v.wpos + 1] = end], i |-> v.i + 2,
                      pos |-> (pos1 + 1) % n, wpos |-> wpos1, start |-> end,
                      pt |-> At([v.dst EXCEPT ![v.wpos + 1] = end], pos1),
                      new_count |-> v.new_count - 1]
                ELSE [dst |-> [v.dst EXCEPT ![v.wpos + 1] = v.pt], i |-> v.i + 1,
                      pos |-> pos1, wpos |-> wpos1, start |-> v.pt,
                      pt |-> end, new_count |-> v.new_count]}})

\* Stage 1: init_iters = 3 rounds from position 0, each starting at the
\* farthest point of the round before; r = <<position, offset>>.
RECURSIVE FarthestRounds(_, _, _)
FarthestRounds(contour, r, rounds) ==
    IF rounds = 0 THEN r
    ELSE The({FarthestRounds(contour, <<s, FarthestOffset(contour, s, r[2])>>, rounds - 1) :
              s \in {(r[1] + r[2]) % Len(contour)}})

\* Stages 2 and 3 from the start position r[1] and its farthest point.
ApproxFrom(contour, r, eps2) ==
    LET n   == Len(contour)
        far == (r[1] + r[2]) % n
        max_dist == Norm2(Sub(At(contour, far), At(contour, r[1])))
    IN  The({CleanUp([dst |-> kept, i |-> 0, pos |-> 1 % Len(kept), wpos |-> 0,
                      start |-> kept[Len(kept)], pt |-> kept[1],
                      new_count |-> Len(kept)], eps2) :
             kept \in {IF max_dist * 100 <= eps2 THEN <<At(contour, r[1])>>
                       ELSE ApproxSlice(contour, r[1], far, eps2)
                            \o ApproxSlice(contour, far, r[1], eps2)}})

\* approx = cv2.approxPolyDP(contour, epsilon_factor * peri, True), for
\* epsilon_factor = k / 100
ApproxPolyDP(contour, k) ==
    The({ApproxFrom(contour, r, eps2) :
            r \in {FarthestRounds(contour, <<0, 0>>, 3)},
            eps2 \in {Eps2Centi(contour, k)}})

\* contours = sorted(contours, key=cv2.contourArea, reverse=True)[:15]
KeepTop == 15

\* area < img_area * 0.05, area > img_area * 0.98
MinContourPct == 5
MaxContourPct == 98

\* sorted(contours, key=cv2.contourArea, reverse=True), a stable sort: each
\* contour in turn goes behind every contour whose area is not smaller.
RECURSIVE InsertByArea(_, _)
InsertByArea(c, sorted) ==
    IF sorted = <<>> THEN <<c>>
    ELSE IF ContourArea2(Head(sorted)) >= ContourArea2(c)
         THEN The({<<Head(sorted)>> \o rest : rest \in {InsertByArea(c, Tail(sorted))}})
         ELSE <<c>> \o sorted

RECURSIVE SortedByArea(_)
SortedByArea(contours) ==
    IF contours = <<>> THEN <<>>
    ELSE The({InsertByArea(contours[Len(contours)], sorted) :
              sorted \in {SortedByArea(SubSeq(contours, 1, Len(contours) - 1))}})

LargestContours(contours) ==
    LET sorted == SortedByArea(contours)
    IN  SubSeq(sorted, 1, IF Len(sorted) < KeepTop THEN Len(sorted) ELSE KeepTop)

\* \* (mutation) the lower area limit is left out
ContourSkippedNoLower(contour, img_shape) ==
    LET area2    == ContourArea2(contour)
        img_area == img_shape[1] * img_shape[2]
    IN  \/ Len(contour) < 4
        \/ area2 * 100 > 2 * MaxContourPct * img_area
        \/ ArcLengthDeci(contour) = 0

\* The "continue" tests made on a contour before the epsilon loop: fewer than
\* 4 points, area below 5% or above 98% of the frame, zero perimeter.
ContourSkipped(contour, img_shape) ==
    LET area2    == ContourArea2(contour)
        img_area == img_shape[1] * img_shape[2]
    IN  \/ Len(contour) < 4
        \/ area2 * 100 < 2 * MinContourPct * img_area
        \/ area2 * 100 > 2 * MaxContourPct * img_area
        \/ ArcLengthDeci(contour) = 0

\* corners = approx.reshape(4, 2).astype(np.float32) * ratio
ScaleCorners(approx, ratio) ==
    [i \in 1..Len(approx) |-> <<approx[i][1] * ratio, approx[i][2] * ratio>>]

\* One pass of the epsilon loop body: the approximation, the scaled corners
\* and whether "len(approx) == 4 and self._is_valid_quadrilateral(corners)".
ApproxAttempt(contour, k, ratio) ==
    LET approx == ApproxPolyDP(contour, k)
    IN  [approx  |-> approx,
         corners |-> ScaleCorners(approx, ratio),
         ok      |-> Len(approx) = 4 /\ IsValidQuadrilateral(ScaleCorners(approx, ratio))]

\* (mutation) the epsilon loop goes on after a valid quadrilateral
AfterAttemptNoReturn(ok, idx, e) ==
    IF e < Len(EpsilonFactors) THEN <<"epsilon", idx, e + 1>>
    ELSE <<"contour", idx + 1, 1>>

\* Where control goes after the attempt with the e-th tolerance on contour
\* idx: return corners, the next tolerance, or the next contour.
AfterAttempt(ok, idx, e) ==
    IF ok THEN <<"found", idx, e>>
    ELSE IF e < Len(EpsilonFactors) THEN <<"epsilon", idx, e + 1>>
    ELSE <<"contour", idx + 1, 1>>

\* ===================================================================== *
\* Idle values of the variable groups a specification does not use.      *
\* ===================================================================== *
ProcIdle ==
    /\ pc = <<>> /\ bytes = <<>> /\ buf = <<>> /\ env = <<>> /\ result = <<>>
    /\ debug = TRUE /\ overlapped = FALSE
ScanIdle ==
    /\ sPc = "idle" /\ sShape = <<0, 0>> /\ sI = 0 /\ sJ = 0
    /\ sLog = <<>> /\ sResult = None
OrderIdle ==
    /\ oPts = <<>> /\ oFrame = None /\ oPerm = <<>>
    /\ oFirst = None /\ oSecond = None /\ oPhase = "idle"
QuadIdle ==
    /\ qPts = <<>> /\ qShape = <<0, 0>> /\ qValid = FALSE /\ qReason = "unset"
    /\ qPhase = "idle"
ContourIdle ==
    /\ kFound = <<>> /\ kContours = <<>> /\ kShape = <<0, 0>> /\ kRatio = 0
    /\ kIdx = 0 /\ kEps = 0 /\ kLog = <<>> /\ kResult = None /\ kPc = "idle"
GenerateIdle ==
    /\ gPc = "idle" /\ gDir = {} /\ gBytes = <<>> /\ gFiles = <<>> /\ gI = 0
    /\ gFlags = <<>> /\ gPaths = <<>> /\ gResponse = "none"

\* ===================================================================== *
\* SpecQuad: the two validators applied to 4-point sequences.            *
\* ===================================================================== *
\* Frame heights and widths of the validator harness.
FrameDims == {1, GridMax, 30, 40, 99, 800}
FrameShapes == FrameDims \X FrameDims

\* The frame's boundary corners, clockwise from the origin: (x, y) pairs.
FrameCorners(shape) ==
    <<<<0, 0>>, <<shape[2], 0>>, <<shape[2], shape[1]>>, <<0, shape[1]>>>>

\* Either a 4-point sequence from the grid, or a frame together with its own
\* boundary corners given in some order.
InitQuad ==
    /\ \/ /\ qPhase = "given"
          /\ qPts \in UnitPoints \X UnitPoints \X UnitPoints \X UnitPoints
          /\ qShape = <<0, 0>>
       \/ /\ qPhase = "frame"
          /\ qShape \in FrameShapes
          /\ qPts \in {Permute(FrameCorners(qShape), p) : p \in Perms4}
    /\ qValid = FALSE /\ qReason = "unset"
    /\ ProcIdle /\ ScanIdle /\ OrderIdle /\ ContourIdle /\ GenerateIdle

\* _is_valid_quadrilateral(qPts)
CheckQuadrilateral ==
    /\ qPhase = "given"
    /\ qValid' = IsValidQuadrilateral(qPts)
    /\ qPhase' = "checked"
    /\ UNCHANGED <<qPts, qShape, qReason>>
    /\ UNCHANGED <<procVars, scanVars, orderVars, contourVars, generateVars>>

\* _validate_corners(qPts, qShape) on the frame's own boundary corners
CheckFrameBoundary ==
    /\ qPhase = "frame"
    /\ qReason' = ValidateCornersReason(qPts, qShape, FALSE)
    /\ qPhase' = "boundary"
    /\ UNCHANGED <<qPts, qShape, qValid>>
    /\ UNCHANGED <<procVars, scanVars, orderVars, contourVars, generateVars>>

NextQuad == CheckQuadrilateral \/ CheckFrameBoundary

SpecQuad == InitQuad /\ [][NextQuad]_vars

\* ===================================================================== *
\* SpecOrder: the rectifier given the same 4 points in two orders.       *
\* ===================================================================== *
PointKey(p) == p[1] * (GridMax * Step + 1) + p[2]

\* One representative order of every set of 4 distinct points.
PointSets ==
    {s \in Points \X Points \X Points \X Points :
        \A i \in 1..3 : PointKey(s[i]) < PointKey(s[i + 1])}

\* Frames the rectifier is given: one smaller than MinDim, one larger.
OrderFrames ==
    {Frame("frame", "cv", <<d, d>>) : d \in {Step, GridMax * Step}}

\* What one call _transform_perspective(img, corners) computed and returned.
RectifyCall(img, corners, fault) ==
    [rect  |-> OrderCorners(corners),
     out   |-> TransformPerspective(img, corners, fault),
     fault |-> fault]

InitOrder ==
    /\ oPts \in PointSets
    /\ oFrame \in OrderFrames
    /\ oPerm = <<>> /\ oFirst = None /\ oSecond = None
    /\ oPhase = "given"
    /\ ProcIdle /\ ScanIdle /\ QuadIdle /\ ContourIdle /\ GenerateIdle

RectifyGiven ==
    /\ oPhase = "given"
    /\ \E fault \in BOOLEAN : oFirst' = RectifyCall(oFrame, oPts, fault)
    /\ oPhase' = "first"
    /\ UNCHANGED <<oPts, oFrame, oPerm, oSecond>>
    /\ UNCHANGED <<procVars, scanVars, quadVars, contourVars, generateVars>>

Reorder ==
    /\ oPhase = "first"
    /\ \E p \in Perms4 : oPerm' = Permute(oPts, p)
    /\ oPhase' = "reordered"
    /\ UNCHANGED <<oPts, oFrame, oFirst, oSecond>>
    /\ UNCHANGED <<procVars, scanVars, quadVars, contourVars, generateVars>>

RectifyReordered ==
    /\ oPhase = "reordered"
    /\ \E fault \in BOOLEAN : oSecond' = RectifyCall(oFrame, oPerm, fault)
    /\ oPhase' = "second"
    /\ UNCHANGED <<oPts, oFrame, oPerm, oFirst>>
    /\ UNCHANGED <<procVars, scanVars, quadVars, contourVars, generateVars>>

NextOrder == RectifyGiven \/ Reorder \/ RectifyReordered

SpecOrder == InitOrder /\ [][NextOrder]_vars

\* ===================================================================== *
\* SpecScan: _find_document_corners_multi_strategy on one frame.          *
\* ===================================================================== *
WorkingHeight == 800

\* cv2.resize(img, (int(width / ratio), 800)) with ratio = height / 800.0
\* raises when the computed width is 0.
ResizedWidth(shape) == (shape[2] * WorkingHeight) \div shape[1]
ResizeFaults(shape) == ResizedWidth(shape) = 0

\* Quadrilaterals an edge map may hold, in original-frame coordinates: a
\* document, the whole 30 x 40 frame, and a sliver.
SampleQuads ==
    { <<<<5, 5>>, <<25, 6>>, <<26, 35>>, <<4, 34>>>>,
      <<<<0, 0>>, <<30, 0>>, <<30, 40>>, <<0, 40>>>>,
      <<<<0, 0>>, <<30, 0>>, <<30, 40>>, <<29, 39>>>> }

\* What _find_best_contour can return: None (also on an internal fault), or
\* a 4-point approximation that passed _is_valid_quadrilateral.
ContourOutcomes == {None} \cup {q \in SampleQuads : IsValidQuadrilateral(q)}

\* preprocessed_images and edge_params of _strategy_edge_detection,
\* thresh_methods of _strategy_adaptive_threshold
Preprocessed == <<"bilateral", "gaussian", "median">>
EdgeParams == <<<<30, 100>>, <<50, 150>>, <<75, 200>>, <<100, 250>>>>
ThreshMethods == <<"gaussian_c", "mean_c">>

\* The _find_best_contour call made at position <<strategy, i, j>> (loop
\* indices 0-based).
AttemptAt(pos) ==
    CASE pos[1] = "edge"     -> <<"edge", Preprocessed[pos[2] + 1], EdgeParams[pos[3] + 1]>>
      [] pos[1] = "adaptive" -> <<"adaptive", ThreshMethods[pos[2] + 1], <<50, 150>>>>
      [] pos[1] = "color"    -> <<"color", "otsu", <<50, 150>>>>
      [] pos[1] = "morph"    -> <<"morph", "gradient", <<0, 0>>>>

\* (mutation) color segmentation is tried before adaptive thresholding
PositionAfterNoneSwapped(pos) ==
    CASE pos[1] = "edge" ->
            IF pos[3] + 1 < Len(EdgeParams) THEN <<"edge", pos[2], pos[3] + 1>>
            ELSE IF pos[2] + 1 < Len(Preprocessed) THEN <<"edge", pos[2] + 1, 0>>
            ELSE <<"color", 0, 0>>
      [] pos[1] = "color" -> <<"adaptive", 0, 0>>
      [] pos[1] = "adaptive" ->
            IF pos[2] + 1 < Len(ThreshMethods) THEN <<"adaptive", pos[2] + 1, 0>>
            ELSE <<"morph", 0, 0>>
      [] pos[1] = "morph" -> <<"none", 0, 0>>

\* Where control goes when the call at pos returned None: the next inner
\* iteration, the next outer iteration, the next strategy, or return None.
PositionAfterNone(pos) ==
    CASE pos[1] = "edge" ->
            IF pos[3] + 1 < Len(EdgeParams) THEN <<"edge", pos[2], pos[3] + 1>>
            ELSE IF pos[2] + 1 < Len(Preprocessed) THEN <<"edge", pos[2] + 1, 0>>
            ELSE <<"adaptive", 0, 0>>
      [] pos[1] = "adaptive" ->
            IF pos[2] + 1 < Len(ThreshMethods) THEN <<"adaptive", pos[2] + 1, 0>>
            ELSE <<"color", 0, 0>>
      [] pos[1] = "color" -> <<"morph", 0, 0>>
      [] pos[1] = "morph" -> <<"none", 0, 0>>

\* "if corners is not None: return corners", else go on.
PositionAfter(pos, r) ==
    IF r # None THEN <<"found", 0, 0>> ELSE PositionAfterNone(pos)

ScanShapes == {<<40, 30>>, <<80, 60>>, <<120, 90>>, <<1000, 1>>}

InitScan ==
    /\ sShape \in ScanShapes
    /\ sPc = "edge" /\ sI = 0 /\ sJ = 0
    /\ sLog = <<>> /\ sResult = None
    /\ ProcIdle /\ OrderIdle /\ QuadIdle /\ ContourIdle /\ GenerateIdle

\* One _find_best_contour call of the strategy at sPc, and what follows it.
TryContour(strategy) ==
    /\ sPc = strategy
    /\ ~ ResizeFaults(sShape)
    /\ \E r \in ContourOutcomes :
          LET pos  == <<sPc, sI, sJ>>
              next == PositionAfter(pos, r)
          IN  /\ sLog' = Append(sLog, [attempt |-> AttemptAt(pos), outcome |-> r])
              /\ sResult' = r
              /\ sPc' = next[1]
              /\ sI' = next[2]
              /\ sJ' = next[3]
    /\ UNCHANGED sShape
    /\ UNCHANGED <<procVars, orderVars, quadVars, contourVars, generateVars>>

EdgeDetection == TryContour("edge")
AdaptiveThreshold == TryContour("adaptive")
ColorSegmentation == TryContour("color")
Morphological == TryContour("morph")

\* The first strategy's cv2.resize raises; nothing in the scanner catches it.
ScanRaises ==
    /\ sPc = "edge"
    /\ ResizeFaults(sShape)
    /\ sPc' = "raised"
    /\ UNCHANGED <<sShape, sI, sJ, sLog, sResult>>
    /\ UNCHANGED <<procVars, orderVars, quadVars, contourVars, generateVars>>

NextScan ==
    \/ EdgeDetection
    \/ AdaptiveThreshold
    \/ ColorSegmentation
    \/ Morphological
    \/ ScanRaises

SpecScan == InitScan /\ [][NextScan]_vars

\* ===================================================================== *
\* SpecContour: _find_best_contour on one list of contours.              *
\* ===================================================================== *
\* Contours an edge map may hold, at working resolution: the frame's border
\* (above 98% of a 100 x 100 frame), a speck (below 5%), a two-point stroke,
\* a wedge that approximates to a triangle, a sheet of paper, a sheet with a
\* bump on one edge, an octagon, and a dart with one angle above 160 degrees.
Border == <<<<0, 0>>, <<99, 0>>, <<99, 99>>, <<0, 99>>>>
Speck  == <<<<1, 1>>, <<3, 1>>, <<3, 3>>, <<1, 3>>>>
Stroke == <<<<5, 5>>, <<30, 5>>>>
Wedge  == <<<<0, 0>>, <<40, 0>>, <<0, 40>>, <<0, 20>>>>
Sheet  == <<<<5, 5>>, <<30, 6>>, <<31, 30>>, <<4, 29>>>>
Bump   == <<<<2, 2>>, <<24, 2>>, <<24, 24>>, <<20, 27>>, <<2, 24>>>>
Octagon == <<<<8, 0>>, <<24, 0>>, <<32, 8>>, <<32, 24>>,
             <<24, 32>>, <<8, 32>>, <<0, 24>>, <<0, 8>>>>
Dart   == <<<<0, 0>>, <<40, 0>>, <<40, 30>>, <<20, 19>>>>

SampleContours == {Border, Speck, Stroke, Wedge, Sheet, Bump, Octagon, Dart}

\* The working frame (resized.shape) of the harness: 100 x 100 stands for
\* 800 x W, so that the arithmetic stays inside 32-bit integers; the
\* selector reads the shape only as img_shape[0] * img_shape[1].
ContourShape == <<100, 100>>

\* ratio = height / 800.0 of the harness: the original frame is the working
\* frame or twice its size.
Ratios == {1, 2}

\* The lists findContours may return: some outlines of the frame's border
\* followed by up to MaxTail sample contours.
MaxTail == 2
LeadCounts == {0, KeepTop - 1, KeepTop}
Tails == UNION {[1..n -> SampleContours] : n \in 0..MaxTail}
ContourLists == {[i \in 1..n |-> Border] \o t : n \in LeadCounts, t \in Tails}

Member(x, s) == \E i \in 1..Len(s) : s[i] = x

\* At twice the size the dart's edge products leave 32-bit integers, so it is
\* given at ratio 1 only.
InitContour ==
    /\ kFound \in ContourLists
    /\ kShape = ContourShape
    /\ kRatio \in Ratios
    /\ kRatio # 1 => ~ Member(Dart, kFound)
    /\ kContours = <<>> /\ kIdx = 0 /\ kEps = 0
    /\ kLog = <<>> /\ kResult = None
    /\ kPc = "start"
    /\ ProcIdle /\ ScanIdle /\ OrderIdle /\ QuadIdle /\ GenerateIdle

ContourOthers == <<procVars, scanVars, orderVars, quadVars, generateVars>>

\* contours, _ = cv2.findContours(...); if not contours: return None;
\* contours = sorted(...)[:15]; img_area = ...
SortContours ==
    /\ kPc = "start"
    /\ IF kFound = <<>>
       THEN kPc' = "none" /\ UNCHANGED <<kContours, kIdx>>
       ELSE /\ kContours' = LargestContours(kFound)
            /\ kIdx' = 1
            /\ kPc' = "contour"
    /\ UNCHANGED <<kFound, kShape, kRatio, kEps, kLog, kResult, ContourOthers>>

\* for contour in contours: the tests before the epsilon loop.  The area was
\* already computed on this contour by the sort, so the inner except branch
\* (line 263) is not taken.
FilterContour ==
    /\ kPc = "contour"
    /\ kIdx <= Len(kContours)
    /\ IF ContourSkipped(kContours[kIdx], kShape)
       THEN kIdx' = kIdx + 1 /\ UNCHANGED <<kPc, kEps>>
       ELSE kPc' = "epsilon" /\ kEps' = 1 /\ UNCHANGED kIdx
    /\ UNCHANGED <<kFound, kContours, kShape, kRatio, kLog, kResult, ContourOthers>>

\* for epsilon_factor in [...]: approx = ...; if len(approx) == 4: ...
Approximate ==
    /\ kPc = "epsilon"
    /\ LET a    == ApproxAttempt(kContours[kIdx], EpsilonFactors[kEps], kRatio)
           next == AfterAttempt(a.ok, kIdx, kEps)
       IN  /\ kLog' = Append(kLog, [contour |-> kIdx, eps |-> EpsilonFactors[kEps],
                                    ok |-> a.ok])
           /\ kResult' = IF next[1] = "found" THEN a.corners ELSE kResult
           /\ kPc' = next[1]
           /\ kIdx' = next[2]
           /\ kEps' = next[3]
    /\ UNCHANGED <<kFound, kContours, kShape, kRatio, ContourOthers>>

\* The contour loop ends: return None.
Exhausted ==
    /\ kPc = "contour"
    /\ kIdx > Len(kContours)
    /\ kPc' = "none"
    /\ UNCHANGED <<kFound, kContours, kShape, kRatio, kIdx, kEps, kLog, kResult,
                   ContourOthers>>

\* except Exception: return None -- a library call raised.
ContourRaises ==
    /\ kPc \in {"start", "epsilon"}
    /\ kPc' = "fault"
    /\ kResult' = None
    /\ UNCHANGED <<kFound, kContours, kShape, kRatio, kIdx, kEps, kLog, ContourOthers>>

NextContour ==
    \/ SortContours
    \/ FilterContour
    \/ Approximate
    \/ Exhausted
    \/ ContourRaises

SpecContour == InitContour /\ [][NextContour]_vars

\* ===================================================================== *
\* Spec: concurrent calls of process() on the one shared processor.       *
\* ===================================================================== *
\* Number of calls in flight (main.py calls the module-level processor from
\* every request).
NCalls == 2
Calls == 1..NCalls

\* The byte strings a call may be given, by what the two decoders make of
\* them: cv2.imdecode (line 18) and PIL's Image.open(...).convert (line 66).
\* doc.jpg and narrow.png are well formed; cut.jpg is narrow.png's picture as
\* a JPEG cut short, which cv2 decodes (padding the missing rows) and PIL
\* refuses to load; icon.ico is a format only PIL reads; garbage is no image.
Inputs == {"doc.jpg", "narrow.png", "cut.jpg", "icon.ico", "garbage"}

NoFrame == Frame("", "none", <<0, 0>>)

CvDecodes(b) == b \in {"doc.jpg", "narrow.png", "cut.jpg"}
PilDecodes(b) == b \in {"doc.jpg", "narrow.png", "icon.ico"}

ShapeOf(b) ==
    CASE b \in {"narrow.png", "cut.jpg"} -> <<1000, 1>>
      [] b = "icon.ico"   -> <<16, 16>>
      [] OTHER            -> <<40, 30>>

\* cv2.imdecode(nparr, cv2.IMREAD_COLOR): the frame, or None
CvDecode(b) == IF CvDecodes(b) THEN Frame(b, "cv", ShapeOf(b)) ELSE NoFrame

\* Image.open(io.BytesIO(image_bytes)).convert("RGB"), when it does not raise
PilDecode(b) == Frame(b, "pil", ShapeOf(b))

\* _enhance_quality: the enhanced frame, or img itself from the except branch
EnhanceQuality(img, fault) ==
    IF fault THEN img ELSE [img EXCEPT !.enh = "standard"]

\* _enhance_quality_aggressive: the enhanced frame; its except branch only
\* prints, so the method then returns None
EnhanceQualityAggressive(img, fault) ==
    IF fault THEN NoFrame ELSE [img EXCEPT !.enh = "aggressive"]

NoResult == [image |-> NoFrame, transformed |-> FALSE]

\* (mutation) the top-level handler re-raises instead of returning
HandlerOutcomeReraise(b) ==
    [outcome |-> "raised", image |-> NoFrame, transformed |-> FALSE]

\* The except branch of process: re-decode the bytes with PIL and return
\* (pil_img, False); a failure of that decode leaves process.
HandlerOutcome(b) ==
    IF PilDecodes(b)
    THEN [outcome |-> "returned", image |-> PilDecode(b), transformed |-> FALSE]
    ELSE [outcome |-> "raised", image |-> NoFrame, transformed |-> FALSE]

\* (mutation) a rejected quadrilateral is rectified all the same
AfterValidateAlways(is_valid) == "rectify"

\* "if is_valid:" -- rectify, or fall through to the fallback
AfterValidate(is_valid) == IF is_valid THEN "rectify" ELSE "aggressive"

\* What the environment did to one call: the scanner's answer, whether the
\* scanner raised, the stages in which a library call raised, and whether
\* the top-level handler ran.
NoEnv == [scan |-> None, scanRaised |-> FALSE, faults |-> {}, handler |-> FALSE]

\* process(b) run from start to end on its own, given what the environment
\* does to it.
ProcessAlone(b, e) ==
    LET img == CvDecode(b)
    IN  IF img = NoFrame THEN HandlerOutcome(b)
        ELSE IF e.scanRaised THEN HandlerOutcome(b)
        ELSE IF /\ e.scan # None
                /\ AfterValidate(ValidateCorners(e.scan, img.shape,
                                                 "validate" \in e.faults)) = "rectify"
        THEN LET transformed == TransformPerspective(img, e.scan, "rectify" \in e.faults)
                 enhanced    == EnhanceQuality(transformed, "enhance" \in e.faults)
             IN  IF "convert" \in e.faults THEN HandlerOutcome(b)
                 ELSE [outcome |-> "returned", image |-> enhanced, transformed |-> TRUE]
        ELSE LET enhanced == EnhanceQualityAggressive(img, "aggressive" \in e.faults)
             IN  IF enhanced = NoFrame THEN HandlerOutcome(b)
                 ELSE [outcome |-> "returned", image |-> enhanced, transformed |-> FALSE]

\* (mutation) the frames are kept on the instance (self.img, self.original)
BufferOfShared(c) == 1

\* The local variables img, original, corners, ... of call c are its own.
BufferOf(c) == c

NoBuffer == [img |-> NoFrame, original |-> NoFrame, corners |-> None,
             valid |-> FALSE, work |-> NoFrame]

Init ==
    /\ pc = [c \in Calls |-> "idle"]
    /\ bytes = [c \in Calls |-> ""]
    /\ buf = [c \in Calls |-> NoBuffer]
    /\ env = [c \in Calls |-> NoEnv]
    /\ result = [c \in Calls |-> NoResult]
    /\ debug = TRUE      \* __init__
    /\ overlapped = FALSE
    /\ ScanIdle /\ OrderIdle /\ QuadIdle /\ ContourIdle /\ GenerateIdle

Others == <<scanVars, orderVars, quadVars, contourVars, generateVars>>

Fault(c, stage) == [env EXCEPT ![c].faults = @ \cup {stage}]
MayFault(c, stage, fault) == env' = IF fault THEN Fault(c, stage) ELSE env

\* Control passes to the except branch of process.
ToHandler(c) == pc' = [pc EXCEPT ![c] = "handler"]

InFlight(c) == pc[c] \notin {"idle", "returned", "raised"}

\* main.py: contents = f.read(); processor.process(contents).  overlapped
\* records that a call began while another was in flight.
Begin(c) ==
    /\ pc[c] = "idle"
    /\ \E b \in Inputs : bytes' = [bytes EXCEPT ![c] = b]
    /\ pc' = [pc EXCEPT ![c] = "decode"]
    /\ overlapped' = (overlapped \/ \E d \in Calls \ {c} : InFlight(d))
    /\ UNCHANGED <<buf, env, result, debug, Others>>

\* img = cv2.imdecode(...); raise ValueError if None; original = img.copy()
Decode(c) ==
    /\ pc[c] = "decode"
    /\ LET img == CvDecode(bytes[c])
       IN  IF img = NoFrame
           THEN ToHandler(c) /\ UNCHANGED buf
           ELSE /\ buf' = [buf EXCEPT ![BufferOf(c)].img = img,
                                      ![BufferOf(c)].original = img]
                /\ pc' = [pc EXCEPT ![c] = "scan"]
    /\ UNCHANGED <<bytes, env, result, debug, overlapped, Others>>

\* corners = self._find_document_corners_multi_strategy(img)
Scan(c) ==
    /\ pc[c] = "scan"
    /\ IF ResizeFaults(buf[BufferOf(c)].img.shape)
       THEN /\ ToHandler(c)
            /\ env' = [env EXCEPT ![c].scanRaised = TRUE]
            /\ UNCHANGED buf
       ELSE \E r \in ContourOutcomes :
               /\ env' = [env EXCEPT ![c].scan = r]
               /\ buf' = [buf EXCEPT ![BufferOf(c)].corners = r]
               /\ pc' = [pc EXCEPT ![c] = IF r # None THEN "validate" ELSE "aggressive"]
    /\ UNCHANGED <<bytes, result, debug, overlapped, Others>>

\* is_valid = self._validate_corners(corners, img.shape); if is_valid: ...
Validate(c) ==
    /\ pc[c] = "validate"
    /\ \E fault \in BOOLEAN :
          LET b        == buf[BufferOf(c)]
              is_valid == ValidateCorners(b.corners, b.img.shape, fault)
          IN  /\ MayFault(c, "validate", fault)
              /\ buf' = [buf EXCEPT ![BufferOf(c)].valid = is_valid]
              /\ pc' = [pc EXCEPT ![c] = AfterValidate(is_valid)]
    /\ UNCHANGED <<bytes, result, debug, overlapped, Others>>

\* transformed = self._transform_perspective(original, corners)
Rectify(c) ==
    /\ pc[c] = "rectify"
    /\ \E fault \in BOOLEAN :
          LET b == buf[BufferOf(c)]
          IN  /\ MayFault(c, "rectify", fault)
              /\ buf' = [buf EXCEPT ![BufferOf(c)].work =
                                     TransformPerspective(b.original, b.corners, fault)]
    /\ pc' = [pc EXCEPT ![c] = "enhance"]
    /\ UNCHANGED <<bytes, result, debug, overlapped, Others>>

\* enhanced = self._enhance_quality(transformed)
Enhance(c) ==
    /\ pc[c] = "enhance"
    /\ \E fault \in BOOLEAN :
          /\ MayFault(c, "enhance", fault)
          /\ buf' = [buf EXCEPT ![BufferOf(c)].work =
                                 EnhanceQuality(buf[BufferOf(c)].work, fault)]
    /\ pc' = [pc EXCEPT ![c] = "convert"]
    /\ UNCHANGED <<bytes, result, debug, overlapped, Others>>

\* result = Image.fromarray(cv2.cvtColor(enhanced, ...)); return result, True
Convert(c) ==
    /\ pc[c] = "convert"
    /\ \E fault \in BOOLEAN :
          /\ MayFault(c, "convert", fault)
          /\ IF fault
             THEN ToHandler(c) /\ UNCHANGED result
             ELSE /\ result' = [result EXCEPT ![c] =
                                   [image |-> buf[BufferOf(c)].work, transformed |-> TRUE]]
                  /\ pc' = [pc EXCEPT ![c] = "returned"]
    /\ UNCHANGED <<bytes, buf, debug, overlapped, Others>>

\* enhanced = self._enhance_quality_aggressive(original)
\* return Image.fromarray(cv2.cvtColor(enhanced, ...)), False
Aggressive(c) ==
    /\ pc[c] = "aggressive"
    /\ \E fault \in BOOLEAN :
          LET enhanced == EnhanceQualityAggressive(buf[BufferOf(c)].original, fault)
          IN  /\ MayFault(c, "aggressive", fault)
              /\ IF enhanced = NoFrame       \* cv2.cvtColor(None, ...) raises
                 THEN ToHandler(c) /\ UNCHANGED result
                 ELSE /\ result' = [result EXCEPT ![c] =
                                       [image |-> enhanced, transformed |-> FALSE]]
                      /\ pc' = [pc EXCEPT ![c] = "returned"]
    /\ UNCHANGED <<bytes, buf, debug, overlapped, Others>>

\* except Exception: pil_img = Image.open(...).convert("RGB"); return pil_img, False
Handler(c) ==
    /\ pc[c] = "handler"
    /\ LET h == HandlerOutcome(bytes[c])
       IN  /\ pc' = [pc EXCEPT ![c] = h.outcome]
           /\ result' = [result EXCEPT ![c] =
                            [image |-> h.image, transformed |-> h.transformed]]
    /\ env' = [env EXCEPT ![c].handler = TRUE]
    /\ UNCHANGED <<bytes, buf, debug, overlapped, Others>>

Next ==
    \E c \in Calls :
        \/ Begin(c)
        \/ Decode(c)
        \/ Scan(c)
        \/ Validate(c)
        \/ Rectify(c)
        \/ Enhance(c)
        \/ Convert(c)
        \/ Aggressive(c)
        \/ Handler(c)

Spec == Init /\ [][Next]_vars

\* ===================================================================== *
\* SpecGenerate: one request to generate_pdf on one image directory.     *
\* ===================================================================== *
\* Files of the image directory are <<kind, number>>: the source image
\* <<"img", i>> (img_*.jpg / img_*.png, numbered in sorted order), its
\* output <<"processed", i>> (processed_<name>), the readiness marker and the
\* document.
ReadyFile == <<"READY.txt", 0>>
OutputPdf == <<"output.pdf", 0>>
ImageFile(i) == <<"img", i>>
ProcessedFile(img_path) == <<"processed", img_path[2]>>

\* The most images a request finds.
MaxImages == 2

\* What the environment may do to one process() call on bytes b: the
\* scanner's answer (or its raising, for a frame it cannot resize) and the
\* stages in which a library call raises.
Stages == {"validate", "rectify", "enhance", "convert", "aggressive"}
ProcessEnvs(b) ==
    {[scan |-> r, scanRaised |-> ResizeFaults(ShapeOf(b)), faults |-> f,
      handler |-> FALSE] :
        r \in IF ResizeFaults(ShapeOf(b)) THEN {None} ELSE ContourOutcomes,
        f \in SUBSET Stages}

\* sorted(image_dir.glob("img_*.jpg") + image_dir.glob("img_*.png"))
ImageFiles(dir) ==
    LET images == {f \in dir : f[1] = "img"}
    IN  [k \in 1..Cardinality(images) |->
            CHOOSE f \in images : Cardinality({g \in images : g[2] < f[2]}) = k - 1]

\* The files removed by the first k rounds of the cleanup loop.
Unlinked(files, k) == {files[i] : i \in 1..k}

InitGenerate ==
    /\ gPc = "poll"
    /\ \E n \in 0..MaxImages :
          /\ gBytes \in [1..n -> Inputs]
          /\ \E ready \in SUBSET {ReadyFile} :
                gDir = {ImageFile(i) : i \in 1..n} \cup ready
    /\ gFiles = <<>> /\ gI = 0 /\ gFlags = <<>> /\ gPaths = <<>>
    /\ gResponse = "none"
    /\ ProcIdle /\ ScanIdle /\ OrderIdle /\ QuadIdle /\ ContourIdle

GenerateOthers == <<procVars, scanVars, orderVars, quadVars, contourVars>>

\* raise HTTPException(status_code=...) / return {...}
Respond(response) == gPc' = "done" /\ gResponse' = response

\* The uploader writes READY.txt while the handler polls.
MarkReady ==
    /\ gPc = "poll"
    /\ ReadyFile \notin gDir
    /\ gDir' = gDir \cup {ReadyFile}
    /\ UNCHANGED <<gPc, gBytes, gFiles, gI, gFlags, gPaths, gResponse, GenerateOthers>>

\* while not ready_file.exists(): ... raise HTTPException(408)
PollTimeout ==
    /\ gPc = "poll"
    /\ ReadyFile \notin gDir
    /\ Respond("408")
    /\ UNCHANGED <<gDir, gBytes, gFiles, gI, gFlags, gPaths, GenerateOthers>>

\* The poll loop ends; image_files = sorted(...); if not image_files: 400
ReadImages ==
    /\ gPc = "poll"
    /\ ReadyFile \in gDir
    /\ gFiles' = ImageFiles(gDir)
    /\ IF ImageFiles(gDir) = <<>>
       THEN Respond("400") /\ UNCHANGED gI
       ELSE gPc' = "loop" /\ gI' = 1 /\ UNCHANGED gResponse
    /\ UNCHANGED <<gDir, gBytes, gFlags, gPaths, GenerateOthers>>

\* One round of "for img_path in image_files": read, process, save.  A raise
\* of open, of process or of save goes to the except branch: 500.
ProcessImage ==
    /\ gPc = "loop"
    /\ gI <= Len(gFiles)
    /\ \E io_fault \in {"none", "read", "save"} :
       \E e \in ProcessEnvs(gBytes[gFiles[gI][2]]) :
          LET img_path == gFiles[gI]
              out      == ProcessAlone(gBytes[img_path[2]], e)
          IN  IF io_fault = "read" \/ out.outcome = "raised"
              THEN Respond("500") /\ UNCHANGED <<gDir, gI, gFlags, gPaths>>
              ELSE IF io_fault = "save"
              THEN /\ Respond("500")
                   /\ gFlags' = Append(gFlags, out.transformed)
                   /\ UNCHANGED <<gDir, gI, gPaths>>
              ELSE /\ gFlags' = Append(gFlags, out.transformed)
                   /\ gDir' = gDir \cup {ProcessedFile(img_path)}
                   /\ gPaths' = Append(gPaths, ProcessedFile(img_path))
                   /\ gI' = gI + 1
                   /\ UNCHANGED <<gPc, gResponse>>
    /\ UNCHANGED <<gBytes, gFiles, GenerateOthers>>

\* if False in transformed_flags: return {"success": True, "useDemo": True, ...}
ReturnDemo ==
    /\ gPc = "loop"
    /\ gI > Len(gFiles)
    /\ \E k \in 1..Len(gFlags) : gFlags[k] = FALSE
    /\ Respond("success-demo")
    /\ UNCHANGED <<gDir, gBytes, gFiles, gI, gFlags, gPaths, GenerateOthers>>

\* pdf_builder.create_pdf(processed_paths, str(output_pdf))
CreatePdf ==
    /\ gPc = "loop"
    /\ gI > Len(gFiles)
    /\ \A k \in 1..Len(gFlags) : gFlags[k] = TRUE
    /\ \E fault \in BOOLEAN :
          IF fault THEN Respond("500") /\ UNCHANGED gDir
          ELSE /\ gDir' = gDir \cup {OutputPdf}
               /\ gPc' = "cleanup"
               /\ UNCHANGED gResponse
    /\ UNCHANGED <<gBytes, gFiles, gI, gFlags, gPaths, GenerateOthers>>

\* for f in image_files + processed_paths + [ready_file]: if f.exists():
\* f.unlink() -- run to the end, or to the round in which unlink raises.
Cleanup ==
    /\ gPc = "cleanup"
    /\ LET files == gFiles \o gPaths \o <<ReadyFile>>
       IN  \E k \in 0..Len(files) :
              /\ gDir' = gDir \ Unlinked(files, k)
              /\ IF k < Len(files) THEN Respond("500")
                 ELSE gPc' = "stat" /\ UNCHANGED gResponse
    /\ UNCHANGED <<gBytes, gFiles, gI, gFlags, gPaths, GenerateOthers>>

\* file_size = output_pdf.stat().st_size; return {"success": True, "pdfPath": ...}
ReturnPdf ==
    /\ gPc = "stat"
    /\ \E fault \in BOOLEAN :
          IF fault THEN Respond("500") ELSE Respond("success-pdf")
    /\ UNCHANGED <<gDir, gBytes, gFiles, gI, gFlags, gPaths, GenerateOthers>>

NextGenerate ==
    \/ MarkReady
    \/ PollTimeout
    \/ ReadImages
    \/ ProcessImage
    \/ ReturnDemo
    \/ CreatePdf
    \/ Cleanup
    \/ ReturnPdf

SpecGenerate == InitGenerate /\ [][NextGenerate]_vars

\* ===================================================================== *
\* Properties of the validators (SpecQuad)                               *
\* ===================================================================== *
QuadChecked == qPhase = "checked"

\* z-component of the cross product of the edges meeting at corner i + 1
Turn(corners, i) ==
    LET a == Sub(corners[((i + 1) % 4) + 1], corners[i + 1])
        b == Sub(corners[((i + 2) % 4) + 1], corners[((i + 1) % 4) + 1])
    IN  a[1] * b[2] - a[2] * b[1]

\* Convex and not self-intersecting in the vertex order given.
StrictlyConvex(corners) ==
    \/ \A i \in 0..3 : Turn(corners, i) > 0
    \/ \A i \in 0..3 : Turn(corners, i) < 0

\* C6: every quadrilateral _is_valid_quadrilateral accepts has its four
\* interior angles strictly between 20 and 160 degrees, so it is convex and
\* does not intersect itself in the vertex order given.
C6_AcceptedIsConvex ==
    (QuadChecked /\ qValid) =>
        /\ \A i \in 0..3 : ~ AngleInvalid(qPts, i)
        /\ StrictlyConvex(qPts)

Coincident(corners) == \E i, j \in 1..4 : i # j /\ corners[i] = corners[j]

\* C7: _is_valid_quadrilateral returns False for every 4-point sequence in
\* which two points coincide, adjacent or diagonally opposite.
C7_CoincidentRejected ==
    (QuadChecked /\ Coincident(qPts)) => ~ qValid

\* C7 witness: a sequence whose only coincidence is diagonal (positions 1 and
\* 3), with no zero-length edge, has been checked and rejected.
C7_Witness ==
    /\ qPhase = "checked"
    /\ qPts[1] = qPts[3]
    /\ \A i \in 0..3 : ~ ZeroEdge(qPts, i)
    /\ ~ qValid

\* The orders that walk the frame boundary: rotations and reflections.
CyclicPerms ==
    {p \in Perms4 : \A i \in 1..4 : (p[(i % 4) + 1] - p[i]) % 4 \in {1, 3}
                                     /\ (p[(i % 4) + 1] - p[i]) % 4 = (p[2] - p[1]) % 4}

WalksBoundary(corners, shape) ==
    \E p \in CyclicPerms : corners = Permute(FrameCorners(shape), p)

\* C8: for every frame shape _validate_corners returns False for the frame's
\* own boundary corners; given in an order that walks the boundary, the reason
\* is the area ratio above 98%.
C8_FrameBoundaryRejected ==
    qPhase = "boundary" =>
        /\ qReason # "ok"
        /\ WalksBoundary(qPts, qShape) => qReason = "large"

\* C8 witness: the boundary corners of a frame, in boundary order, were
\* rejected for their area.
C8_Witness ==
    /\ qPhase = "boundary"
    /\ qPts = FrameCorners(qShape)
    /\ qReason = "large"

\* ===================================================================== *
\* Properties of the rectifier (SpecOrder)                               *
\* ===================================================================== *
FirstDone == oPhase \in {"first", "reordered", "second"}

\* C4: the same 4 points given in any two orders get the identical canonical
\* sequence and identical output width and height, ties in x+y or y-x included.
C4_OrderInvariant ==
    oPhase = "second" =>
        /\ oSecond.rect = oFirst.rect
        /\ (~ oFirst.fault /\ ~ oSecond.fault) =>
               oSecond.out.shape = oFirst.out.shape

\* C5 as stated: the frame _transform_perspective returns is at least
\* 100 x 100, also when rectification faults.
C5_AlwaysMinSize ==
    FirstDone => /\ oFirst.out.shape[1] >= MinDim
                 /\ oFirst.out.shape[2] >= MinDim

MinSizeOrOriginal(call) ==
    IF call.fault
    THEN call.out = oFrame
    ELSE /\ call.out.geom = "rectified"
         /\ call.out.shape[1] >= MinDim
         /\ call.out.shape[2] >= MinDim

\* C5 amended: when rectification does not fault the returned frame is at
\* least 100 x 100; when it faults the returned frame is the input frame.
C5_MinSizeUnlessFault ==
    /\ FirstDone => MinSizeOrOriginal(oFirst)
    /\ oPhase = "second" => MinSizeOrOriginal(oSecond)

Collinear(a, b, c) ==
    (b[1] - a[1]) * (c[2] - a[2]) = (b[2] - a[2]) * (c[1] - a[1])

\* C5 witness: a quadrilateral with three collinear corners whose measured
\* width or height is below 100 was rectified without fault.
C5_Witness ==
    /\ oPhase = "first"
    /\ ~ oFirst.fault
    /\ Collinear(oPts[1], oPts[2], oPts[3])
    /\ \/ RawDims(oFirst.rect)[1] < MinDim
       \/ RawDims(oFirst.rect)[2] < MinDim
    /\ oFirst.out.shape[1] >= MinDim
    /\ oFirst.out.shape[2] >= MinDim

\* C10: the ordered corners are a reordering of the 4 distinct input points:
\* every input point has exactly one of the four roles.
C10_IsReordering ==
    FirstDone => \E p \in Perms4 : oFirst.rect = Permute(oPts, p)

\* ===================================================================== *
\* Properties of the scanner (SpecScan)                                  *
\* ===================================================================== *
\* The 16 _find_best_contour calls in the order the claim fixes.
AttemptOrder ==
    << <<"edge", "bilateral", <<30, 100>>>>, <<"edge", "bilateral", <<50, 150>>>>,
       <<"edge", "bilateral", <<75, 200>>>>, <<"edge", "bilateral", <<100, 250>>>>,
       <<"edge", "gaussian", <<30, 100>>>>,  <<"edge", "gaussian", <<50, 150>>>>,
       <<"edge", "gaussian", <<75, 200>>>>,  <<"edge", "gaussian", <<100, 250>>>>,
       <<"edge", "median", <<30, 100>>>>,    <<"edge", "median", <<50, 150>>>>,
       <<"edge", "median", <<75, 200>>>>,    <<"edge", "median", <<100, 250>>>>,
       <<"adaptive", "gaussian_c", <<50, 150>>>>, <<"adaptive", "mean_c", <<50, 150>>>>,
       <<"color", "otsu", <<50, 150>>>>,
       <<"morph", "gradient", <<0, 0>>>> >>

\* C3: the calls made so far are the first calls of the fixed order
\* (Edge-Detection sweep, Adaptive-Threshold, Color-Segmentation,
\* Morphological); only the last call made can have yielded a quadrilateral,
\* and then the scanner has returned it; the scanner returns None only after
\* all 16 calls returned None.
C3_FixedOrderFirstSuccess ==
    /\ Len(sLog) <= Len(AttemptOrder)
    /\ \A k \in 1..Len(sLog) :
          /\ sLog[k].attempt = AttemptOrder[k]
          /\ k < Len(sLog) => sLog[k].outcome = None
    /\ (Len(sLog) > 0 /\ sLog[Len(sLog)].outcome # None) =>
          /\ sPc = "found"
          /\ sResult = sLog[Len(sLog)].outcome
    /\ sPc = "found" => (Len(sLog) > 0 /\ sLog[Len(sLog)].outcome # None)
    /\ sPc = "none" =>
          /\ Len(sLog) = Len(AttemptOrder)
          /\ sResult = None
          /\ \A k \in 1..Len(sLog) : sLog[k].outcome = None

\* C3 witness: Color-Segmentation succeeded after the 12 edge-detection
\* calls and both adaptive-threshold calls returned None.
C3_Witness ==
    /\ sPc = "found"
    /\ Len(sLog) = 15
    /\ sLog[15].attempt[1] = "color"
    /\ sResult # None

\* ===================================================================== *
\* Properties of the contour selector (SpecContour)                      *
\* ===================================================================== *
\* The contour and the approximation the selector returned from.
ReturnedFrom == kContours[kIdx]
ReturnedApprox == ApproxPolyDP(ReturnedFrom, EpsilonFactors[kEps])

\* twice the area a2 lies between 5% and 98% of the frame area
AreaInRange(a2, shape) ==
    /\ a2 * 100 >= 2 * 5 * shape[1] * shape[2]
    /\ a2 * 100 <= 2 * 98 * shape[1] * shape[2]

\* C11 as stated: the quadrilateral the selector returns has, as a 4-point
\* polygon at working resolution, an enclosed area between 5% and 98% of the
\* working frame area.
C11_ReturnedAreaInRange ==
    kPc = "found" => AreaInRange(Abs(Shoelace2(ReturnedApprox)), kShape)

\* C11 amended: the quadrilateral the selector returns is the scaled 4-point
\* approximation of a contour whose own enclosed area lies between 5% and 98%
\* of the working frame area.
C11_SourceContourInRange ==
    kPc = "found" =>
        /\ Len(ReturnedApprox) = 4
        /\ kResult = ScaleCorners(ReturnedApprox, kRatio)
        /\ Member(ReturnedFrom, kFound)
        /\ AreaInRange(ContourArea2(ReturnedFrom), kShape)

\* C11 witness: a contour of at least 5% of the frame was returned as a
\* quadrilateral of less than 5%.
C11_Witness ==
    /\ kPc = "found"
    /\ AreaInRange(ContourArea2(ReturnedFrom), kShape)
    /\ Abs(Shoelace2(ReturnedApprox)) * 100 < 2 * 5 * kShape[1] * kShape[2]
    /\ kResult = ScaleCorners(ReturnedApprox, kRatio)

\* The number of contours of list cs whose area is at least a2 / 2.
CountAtLeast(cs, a2) == Cardinality({i \in 1..Len(cs) : ContourArea2(cs[i]) >= a2})
Occurrences(cs, c) == Cardinality({i \in 1..Len(cs) : cs[i] = c})
Least(a, b) == IF a <= b THEN a ELSE b

\* cs holds the `most` largest contours of list all, largest first.
LargestFirst(cs, all, most) ==
    /\ Len(cs) = Least(Len(all), most)
    /\ \A i \in 1..(Len(cs) - 1) : ContourArea2(cs[i]) >= ContourArea2(cs[i + 1])
    /\ \A i \in 1..Len(all) :
          /\ Occurrences(cs, all[i]) <= Occurrences(all, all[i])
          /\ CountAtLeast(cs, ContourArea2(all[i]))
                = Least(most, CountAtLeast(all, ContourArea2(all[i])))

\* A contour passes the vertex-count, area and perimeter filters.
PassesFilters(c, shape) ==
    /\ Len(c) >= 4
    /\ AreaInRange(ContourArea2(c), shape)
    /\ \E i, j \in 1..Len(c) : c[i] # c[j]

\* The (contour, tolerance) combinations of the examined contours cs in
\* lexicographic order: contours that pass the filters, in the order of cs,
\* each with the tolerances 0.02 .. 0.06 ascending.
Combinations(cs, shape) ==
    LET Passes(i) == PassesFilters(cs[i], shape)
        q == SelectSeq([i \in 1..Len(cs) |-> i], Passes)
    IN  [m \in 1..(5 * Len(q)) |-> <<q[((m - 1) \div 5) + 1], ((m - 1) % 5) + 2>>]

\* The combination's approximation has exactly 4 vertices and, scaled, passes
\* the Quadrilateral Validator.
Qualifying(cs, combo, ratio) ==
    LET approx == ApproxPolyDP(cs[combo[1]], combo[2])
    IN  /\ Len(approx) = 4
        /\ IsValidQuadrilateral(ScaleCorners(approx, ratio))

\* C13: the selector examines the (at most) 15 largest contours, largest
\* first; the approximations made so far are the first combinations of the
\* lexicographic (contour, tolerance) order over the contours that pass the
\* filters; only the last one made can qualify, and then the selector has
\* returned it; it returns None only after every combination failed, or on an
\* internal fault.
C13_FirstQualifyingCombination ==
    LET combos == Combinations(kContours, kShape)
        n      == Len(kLog)
    IN  /\ kPc \in {"found", "none"} /\ kFound # <<>> =>
              LargestFirst(kContours, kFound, 15)
        /\ n <= Len(combos)
        /\ \A m \in 1..n :
              /\ <<kLog[m].contour, kLog[m].eps>> = combos[m]
              /\ m < n => ~ kLog[m].ok
        /\ (n > 0 /\ kLog[n].ok) => kPc \in {"found", "fault"}
        /\ kPc = "found" =>
              /\ n > 0
              /\ Qualifying(kContours, combos[n], kRatio)
              /\ kResult = ScaleCorners(ApproxPolyDP(kContours[combos[n][1]],
                                                     combos[n][2]), kRatio)
        /\ kPc = "none" =>
              /\ n = Len(combos)
              /\ kResult = None
              /\ \A m \in 1..n : ~ Qualifying(kContours, combos[m], kRatio)
        /\ kPc = "fault" => kResult = None

\* C13 witness: of 16 contours the sheet, the smallest, was dropped by the
\* cut to 15; the fifteenth contour was returned at its fourth tolerance
\* after three approximations of it failed.
C13_Witness ==
    /\ kPc = "found"
    /\ Len(kFound) = KeepTop + 1
    /\ kIdx = KeepTop
    /\ kEps = 4
    /\ Len(kLog) = 4
    /\ Member(Sheet, kFound)
    /\ ~ Member(Sheet, kContours)

\* ===================================================================== *
\* Properties of process (Spec)                                          *
\* ===================================================================== *
Ended(c) == pc[c] \in {"returned", "raised"}

C2_TransformedIffValidated ==
    \A c \in Calls :
        (pc[c] = "returned" /\ ~ env[c].handler /\ env[c].faults = {}) =>
            LET accepted ==
                    /\ env[c].scan # None
                    /\ ValidateCornersReason(env[c].scan, ShapeOf(bytes[c]), FALSE) = "ok"
                image == result[c].image
            IN  /\ result[c].transformed = accepted
                /\ image.src = bytes[c]
                /\ accepted =>
                      /\ image.geom = "rectified"
                      /\ image.enh = "standard"
                /\ ~ accepted =>
                      /\ image.geom = "original"
                      /\ image.shape = ShapeOf(bytes[c])
                      /\ image.enh = "aggressive"

\* C2 witness: one call returned a rectified frame with transformed = True,
\* another fell back because the quadrilateral found was rejected.
C2_Witness ==
    \E c, d \in Calls :
        /\ pc[c] = "returned" /\ env[c].faults = {} /\ result[c].transformed
        /\ pc[d] = "returned" /\ env[d].faults = {} /\ ~ env[d].handler
        /\ env[d].scan # None
        /\ ~ result[d].transformed

\* C9: whatever the interleaving, a call ends as it would have run alone on
\* its bytes under the same environment, and no call writes the instance's
\* only attribute, the debug flag.
C9_SameAsAlone ==
    /\ debug = TRUE
    /\ \A c \in Calls :
          Ended(c) =>
              LET alone == ProcessAlone(bytes[c], env[c])
              IN  /\ pc[c] = alone.outcome
                  /\ result[c].image = alone.image
                  /\ result[c].transformed = alone.transformed

\* C9 witness: two calls on different bytes were in flight together (the
\* second began before the first ended) and both returned.
C9_Witness ==
    /\ pc[1] = "returned" /\ pc[2] = "returned"
    /\ bytes[1] = "doc.jpg" /\ bytes[2] = "narrow.png"
    /\ overlapped
    /\ result[1].transformed /\ ~ result[2].transformed
\* C14: when the found quadrilateral passed _validate_corners and
\* _transform_perspective faulted, the rectifier handed back the original
\* frame unchanged; the fault did not take the call to the top-level handler
\* nor to the aggressive fallback; and, nothing else faulting, process
\* returns the standard-enhanced original frame with transformed = True.
C14_RectifyFaultFallsBack ==
    \A c \in Calls :
        "rectify" \in env[c].faults =>
            /\ buf[c].valid
            /\ pc[c] \in {"enhance", "convert", "handler", "returned", "raised"}
            /\ "aggressive" \notin env[c].faults
            /\ pc[c] = "enhance" => buf[c].work = buf[c].original
            /\ (pc[c] = "handler" \/ env[c].handler) => "convert" \in env[c].faults
            /\ (Ended(c) /\ env[c].faults = {"rectify"}) =>
                  /\ pc[c] = "returned"
                  /\ result[c].transformed = TRUE
                  /\ result[c].image = [buf[c].original EXCEPT !.enh = "standard"]
                  /\ result[c].image.src = bytes[c]
                  /\ result[c].image.geom = "original"
                  /\ result[c].image.shape = ShapeOf(bytes[c])

\* C14 witness: a call whose quadrilateral was accepted and whose only fault
\* was the rectifier's has returned.
C14_Witness ==
    \E c \in Calls :
        /\ pc[c] = "returned"
        /\ env[c].faults = {"rectify"}
        /\ env[c].scan # None
        /\ ~ env[c].handler
        /\ result[c].transformed
        /\ result[c].image.geom = "original"
        /\ result[c].image.enh = "standard"

\* ===================================================================== *
\* Properties of generate_pdf (SpecGenerate)                             *
\* ===================================================================== *
Succeeded == gPc = "done" /\ gResponse \in {"success-demo", "success-pdf"}

\* C12: whenever generate_pdf completes with a success response, the source
\* images, the processed outputs and READY.txt are gone from the image
\* directory, also when some image was not transformed.
C12_SuccessLeavesNothing ==
    Succeeded => \A f \in gDir : f[1] \notin {"img", "processed", "READY.txt"}
====
